---- MODULE Spec2Model ----
(***************************************************************************)
(* A model of the weak-to-strong training harness:                         *)
(*   src/weak_to_strong/train.py     train_model, train_and_save_model     *)
(*   src/weak_to_strong/datasets.py  load_dataset and the formatters       *)
(*                                                                         *)
(* Tensors, losses and learning rates are not computed.  A model is the    *)
(* pair (weights, training) where weights counts the optimizer steps the   *)
(* parameters have received since from_pretrained, and a dataset is its    *)
(* length; an example is named by its position in the stream the training  *)
(* iterator yields.  The file system is the set of files the code reads    *)
(* and writes under save_path, and the file at csv_path.                   *)
(***************************************************************************)
EXTENDS Integers, Sequences, FiniteSets, TLC

VARIABLES
    pc,          \* position of the running call
    exc,         \* the exception that ended the call, "none" otherwise
    entry,       \* the function the caller invoked
    args,        \* parameters of train_model
    model,       \* [weights, training]: the torch module
    nsteps,      \* train_model: nsteps
    step,        \* train_model: step
    it,          \* train_model: items the iterator `it` has yielded
    i,           \* train_model: index of the inner for loop
    all_logits,  \* train_model: positions of the examples accumulated
    losses,      \* train_model: rolling buffer, one entry per step
    accuracies,  \* train_model: rolling buffer, one entry per step
    ret,         \* value train_model returned
    fs,          \* files under save_path and at csv_path
    fwd,         \* forward passes of the training loop in this call
    opts,        \* optimizer.step() calls in this call
    iters,       \* iterations of the while loop begun in this call
    logged,      \* the logging intervals of this call
    tsm,         \* parameters and locals of train_and_save_model
    ld,          \* parameters and locals of load_dataset
    ref          \* one split as an earlier call of load_dataset returned it

vars == <<pc, exc, entry, args, model, nsteps, step, it, i, all_logits,
          losses, accuracies, ret, fs, fwd, opts, iters, logged, tsm,
          ld, ref>>

-----------------------------------------------------------------------------
(* Bounds of the explored inputs.                                          *)

MaxLen == 3
MaxEpochs == 2
MaxBatch == 2
MaxLogEvery == 2

(* Python's None where an integer or a dataset is expected, and where a    *)
(* path is expected.                                                       *)
None == -1
NoPath == "None"

OptimizerNames == {"adam", "ADAFACTOR", "sgd"}
LrSchedules == {"constant", "cosine_anneal", "linear"}
CsvPaths == {NoPath, "metrics.csv"}

(* str.lower() on the names above.                                         *)
Lower(s) ==
    CASE s = "ADAFACTOR" -> "adafactor"
      [] s = "Adam" -> "adam"
      [] OTHER -> s

Range(a, b) == [k \in 1..(b - a) |-> a + k - 1]

-----------------------------------------------------------------------------
(* The file system.                                                        *)

(* fs.marker       save_path/results.txt exists                            *)
(* fs.safetensors  save_path/model.safetensors: None when absent, Corrupt  *)
(*                 when torch.load or load_state_dict rejects it, else the *)
(*                 weights of the state dict it holds                      *)
(* fs.bin          save_path/pytorch_model.bin as save_pretrained(         *)
(*                 safe_serialization=False) writes it: None when absent,  *)
(*                 else the weights saved                                  *)
(* fs.pkl          save_path/results.pkl                                   *)
(* fs.csv          the file at csv_path                                    *)
Corrupt == -2
ForeignWeights == 100

NoFile == [exists |-> FALSE, rows |-> <<>>]
EmptyFile == [exists |-> TRUE, rows |-> <<>>]

CsvHeader == <<"step", "progress", "train_loss", "train_accuracy",
               "validation_loss", "test_loss", "lr">>

(* initialize_csv: open(file_path, 'w') creates or truncates the file;     *)
(* the next statement names `csv`, which the module never imports, so the  *)
(* header is never written and NameError is raised.                        *)
initialize_csv(f) == [f EXCEPT !.csv = EmptyFile]

(* write_to_csv: open(file_path, 'a') keeps the rows; csv.writer raises    *)
(* NameError before any row is written.                                    *)
write_to_csv(f) == [f EXCEPT !.csv = [exists |-> TRUE, rows |-> f.csv.rows]]

-----------------------------------------------------------------------------
(* train_model                                                             *)

NoArgs ==
    [n |-> 0, batch_size |-> 1, minibatch_size |-> 1, log_every |-> 0,
     eval_ds |-> None, test_ds |-> None, train_with_dropout |-> FALSE,
     epochs |-> 1, lr_schedule |-> "constant", optimizer_name |-> "adam",
     csv_path |-> NoPath]

NoModel == [weights |-> 0, training |-> FALSE]

(* nsteps = len(ds) * epochs // batch_size                                 *)
NStepsCeil(a) == (a.n * a.epochs + a.batch_size - 1) \div a.batch_size
NSteps(a) == (a.n * a.epochs) \div a.batch_size

(* range(batch_size // minibatch_size)                                     *)
NumMinibatchesOne(a) == 1
NumMinibatches(a) == a.batch_size \div a.minibatch_size

(* if log_every and step % log_every == 0                                  *)
ShouldLogAfter(a, s) == a.log_every # 0 /\ (s + 1) % a.log_every = 0
ShouldLog(a, s) == a.log_every # 0 /\ s % a.log_every = 0

(* the mode train_model puts the model in before the loop                  *)
InitialMode(a) == a.train_with_dropout

(* The statement of lines 76-108 that raises, "none" when none does.       *)
(* LambdaLR's constructor evaluates lr_schedule_fn(0), so an unknown       *)
(* schedule fails where the scheduler is built.                            *)
SetupFailure(a) ==
    IF a.batch_size % a.minibatch_size # 0 THEN "AssertionError"
    ELSE IF a.csv_path # NoPath THEN "NameError"
    ELSE IF Lower(a.optimizer_name) \notin {"adam", "adafactor"}
         THEN "AssertionError"
    ELSE IF a.lr_schedule \notin {"cosine_anneal", "constant"}
         THEN "AssertionError"
    ELSE "none"

(* what eval_model_acc returns: the per-example results of the model with  *)
(* these weights on a dataset of this length                               *)
eval_model_acc(m, ds) == [weights |-> m.weights, n |-> ds]

(* calculate_loss: a dataset that is None or empty returns nan at once,    *)
(* otherwise the model is switched to evaluation mode                      *)
calculate_loss(m, ds) ==
    IF ds = None \/ ds = 0 THEN m ELSE [m EXCEPT !.training = FALSE]

(* test_results / final_eval_results when there are none (Python's None)   *)
NoResults == [weights |-> None, n |-> None]

Locals0 ==
    /\ nsteps = 0 /\ step = 0 /\ it = 0 /\ i = 0
    /\ all_logits = <<>> /\ losses = <<>> /\ accuracies = <<>>
    /\ ret = NoResults /\ fwd = 0 /\ opts = 0 /\ iters = 0 /\ logged = <<>>

ResetLocals ==
    /\ nsteps' = 0 /\ step' = 0 /\ it' = 0 /\ i' = 0
    /\ all_logits' = <<>> /\ losses' = <<>> /\ accuracies' = <<>>
    /\ ret' = NoResults /\ fwd' = 0 /\ opts' = 0 /\ iters' = 0 /\ logged' = <<>>

KeepLocals ==
    UNCHANGED <<nsteps, step, it, i, all_logits, losses, accuracies, ret,
                fwd, opts, iters, logged>>

KeepData == UNCHANGED <<ld, ref>>

(* A caller invokes train_model with a freshly built model (a torch        *)
(* module starts in training mode).                                        *)
TM_Call ==
    /\ pc = "idle"
    /\ \E n \in 0..MaxLen, ep \in 1..MaxEpochs,
          bs \in 1..MaxBatch, mb \in 1..MaxBatch, le \in 0..MaxLogEvery,
          ev \in {None, 0, 1}, te \in {None, 1}, dr \in BOOLEAN,
          sch \in LrSchedules, opt \in OptimizerNames, csv \in CsvPaths :
         args' = [n |-> n, batch_size |-> bs, minibatch_size |-> mb,
                  log_every |-> le, eval_ds |-> ev, test_ds |-> te,
                  train_with_dropout |-> dr, epochs |-> ep,
                  lr_schedule |-> sch, optimizer_name |-> opt,
                  csv_path |-> csv]
    /\ entry' = "train_model"
    /\ model' = [weights |-> 0, training |-> TRUE]
    /\ pc' = "tm_setup"
    /\ UNCHANGED <<exc, fs, tsm>>
    /\ KeepLocals
    /\ KeepData

(* lines 76-139: everything before the while loop                          *)
TM_Setup ==
    /\ pc = "tm_setup"
    /\ LET fail == SetupFailure(args)
           csvInit == args.batch_size % args.minibatch_size = 0
                      /\ args.csv_path # NoPath
           modeSet == args.batch_size % args.minibatch_size = 0
                      /\ args.csv_path = NoPath
       IN /\ fs' = IF csvInit THEN initialize_csv(fs) ELSE fs
          /\ model' = IF modeSet
                      THEN [model EXCEPT !.training = InitialMode(args)]
                      ELSE model
          /\ exc' = fail
          /\ pc' = IF fail = "none" THEN "tm_loop" ELSE "raised"
          /\ nsteps' = IF fail = "none" THEN NSteps(args) ELSE nsteps
    /\ UNCHANGED <<entry, args, step, it, i, all_logits, losses, accuracies,
                   ret, fwd, opts, iters, logged, tsm>>
    /\ KeepData

(* line 141-145: the test of the while loop and the start of an iteration  *)
TM_Loop ==
    /\ pc = "tm_loop"
    /\ IF step < nsteps
       THEN /\ all_logits' = <<>>
            /\ i' = 0
            /\ iters' = iters + 1
            /\ pc' = IF 0 < NumMinibatches(args) THEN "tm_mbatch" ELSE "tm_loss"
       ELSE /\ pc' = "tm_final"
            /\ UNCHANGED <<all_logits, i, iters>>
    /\ UNCHANGED <<exc, entry, args, model, nsteps, step, it, losses,
                   accuracies, ret, fs, fwd, opts, logged, tsm>>
    /\ KeepData

(* lines 145-158: one pass of the inner for loop.  next(it) raises         *)
(* StopIteration once the epochs repetitions of ds are used up; the items  *)
(* already taken for the minibatch are dropped and the for loop is left.   *)
TM_Minibatch ==
    /\ pc = "tm_mbatch"
    /\ LET total == args.n * args.epochs
           mb == args.minibatch_size
       IN IF total - it >= mb
          THEN /\ it' = it + mb
               /\ all_logits' = all_logits \o Range(it, it + mb)
               /\ fwd' = fwd + 1
               /\ i' = i + 1
               /\ pc' = IF i + 1 < NumMinibatches(args)
                        THEN "tm_mbatch" ELSE "tm_loss"
          ELSE /\ it' = total
               /\ pc' = "tm_loss"
               /\ UNCHANGED <<all_logits, fwd, i>>
    /\ UNCHANGED <<exc, entry, args, model, nsteps, step, losses, accuracies,
                   ret, fs, opts, iters, logged, tsm>>
    /\ KeepData

(* lines 160-182: the loss over the accumulated batch, backward, the       *)
(* optimizer and scheduler step.  torch.stack raises on an empty list.     *)
TM_Loss ==
    /\ pc = "tm_loss"
    /\ IF all_logits = <<>>
       THEN /\ exc' = "RuntimeError"
            /\ pc' = "raised"
            /\ UNCHANGED <<losses, accuracies, model, opts>>
       ELSE /\ losses' = Append(losses, step)
            /\ accuracies' = Append(accuracies, step)
            /\ model' = [model EXCEPT !.weights = @ + 1]
            /\ opts' = opts + 1
            /\ pc' = "tm_log"
            /\ UNCHANGED exc
    /\ UNCHANGED <<entry, args, nsteps, step, it, i, all_logits, ret, fs,
                   fwd, iters, logged, tsm>>
    /\ KeepData

(* lines 184-207: the periodic logging and the increment of step           *)
TM_Log ==
    /\ pc = "tm_log"
    /\ IF ShouldLog(args, step)
       THEN /\ model' = calculate_loss(calculate_loss(model, args.eval_ds),
                                       args.test_ds)
            /\ IF args.csv_path # NoPath
               THEN /\ fs' = write_to_csv(fs)
                    /\ exc' = "NameError"
                    /\ pc' = "raised"
                    /\ UNCHANGED <<losses, accuracies, logged, step>>
               ELSE /\ logged' = Append(logged,
                                   [step |-> step, losses |-> losses,
                                    accuracies |-> accuracies])
                    /\ losses' = <<>>
                    /\ accuracies' = <<>>
                    /\ step' = step + 1
                    /\ pc' = "tm_loop"
                    /\ UNCHANGED <<fs, exc>>
       ELSE /\ step' = step + 1
            /\ pc' = "tm_loop"
            /\ UNCHANGED <<model, fs, exc, losses, accuracies, logged>>
    /\ UNCHANGED <<entry, args, nsteps, it, i, all_logits, ret, fwd, opts,
                   iters, tsm>>
    /\ KeepData

(* lines 209-216: the final evaluation and the return                      *)
TM_Final ==
    /\ pc = "tm_final"
    /\ ret' = IF args.test_ds # None
              THEN eval_model_acc(model, args.test_ds) ELSE NoResults
    /\ pc' = "tm_done"
    /\ UNCHANGED <<exc, entry, args, model, nsteps, step, it, i, all_logits,
                   losses, accuracies, fs, fwd, opts, iters, logged, tsm>>
    /\ KeepData


-----------------------------------------------------------------------------
(* train_and_save_model                                                    *)

MaxDevices == 2

NoTsm ==
    [model_parallel |-> FALSE, device_count |-> 1, batch_size |-> 1,
     minibatch_size_per_device |-> None, save_path |-> NoPath,
     force_retrain |-> FALSE, inference_ds |-> None, test_ds |-> 0,
     already_trained |-> FALSE, minibatch_size |-> 1,
     test_results |-> NoResults, inference_results |-> NoResults,
     load_raised |-> FALSE, train_calls |-> 0, saved_before |-> None]

NoPkl == [exists |-> FALSE, test_results |-> NoResults,
          inference_results |-> NoResults]

(* lines 256-263, the body of the try: load_sharded_checkpoint is given    *)
(* the path of the missing file as its folder and finds no index there;    *)
(* torch.load / load_state_dict fail on a file they cannot read or that    *)
(* does not fit the model.                                                 *)
LoadAttempt(f) ==
    IF f.safetensors = None THEN "ValueError"
    ELSE IF f.safetensors = Corrupt THEN "UnpicklingError"
    ELSE "none"

(* maybe_load_model, lines 250-268.  os.path.join(None, ...) raises        *)
(* TypeError outside the try.                                              *)
maybe_load_model_propagating(t, f, m) ==
    IF t.save_path = NoPath
    THEN [exc |-> "TypeError", already_trained |-> FALSE, model |-> m,
          load_raised |-> FALSE]
    ELSE IF f.marker /\ ~t.force_retrain
    THEN IF LoadAttempt(f) = "none"
         THEN [exc |-> "none", already_trained |-> TRUE,
               model |-> [m EXCEPT !.weights = f.safetensors],
               load_raised |-> FALSE]
         ELSE [exc |-> LoadAttempt(f), already_trained |-> FALSE,
               model |-> m, load_raised |-> TRUE]
    ELSE [exc |-> "none", already_trained |-> FALSE, model |-> m,
          load_raised |-> FALSE]
maybe_load_model(t, f, m) ==
    IF t.save_path = NoPath
    THEN [exc |-> "TypeError", already_trained |-> FALSE, model |-> m,
          load_raised |-> FALSE]
    ELSE IF f.marker /\ ~t.force_retrain
    THEN IF LoadAttempt(f) = "none"
         THEN [exc |-> "none", already_trained |-> TRUE,
               model |-> [m EXCEPT !.weights = f.safetensors],
               load_raised |-> FALSE]
         ELSE [exc |-> "none", already_trained |-> FALSE, model |-> m,
               load_raised |-> TRUE]
    ELSE [exc |-> "none", already_trained |-> FALSE, model |-> m,
          load_raised |-> FALSE]

Min(a, b) == IF a <= b THEN a ELSE b

(* lines 244-245, 284, 292-303: the minibatch size handed to train_model   *)
MinibatchSize(t) ==
    LET per == IF t.minibatch_size_per_device = None
               THEN 1 ELSE t.minibatch_size_per_device
    IN IF t.model_parallel THEN per
       ELSE IF t.device_count > 1
            THEN Min(per * t.device_count, t.batch_size)
            ELSE per

(* save_pretrained(save_path, safe_serialization=False)                    *)
save_pretrained(f, m) == [f EXCEPT !.bin = m.weights]

(* A caller invokes train_and_save_model.                                  *)
TSM_Call ==
    /\ pc = "idle"
    /\ \E mp \in BOOLEAN, dc \in 1..MaxDevices, bs \in 1..MaxBatch,
          per \in {None, 2}, sp \in {NoPath, "p"}, force \in BOOLEAN,
          inf \in {None, 1}, te \in {1} :
         tsm' = [NoTsm EXCEPT !.model_parallel = mp, !.device_count = dc,
                              !.batch_size = bs,
                              !.minibatch_size_per_device = per,
                              !.save_path = sp, !.force_retrain = force,
                              !.inference_ds = inf, !.test_ds = te,
                              !.saved_before =
                                  IF fs.pkl.exists THEN fs.bin ELSE None]
    /\ entry' = "train_and_save_model"
    /\ pc' = "tsm_load"
    /\ UNCHANGED <<exc, args, model, fs>>
    /\ KeepLocals
    /\ KeepData

(* lines 241-303: from_pretrained, maybe_load_model, the minibatch size    *)
TSM_Load ==
    /\ pc = "tsm_load"
    /\ IF tsm.model_parallel /\ ~(tsm.device_count > 1)
       THEN /\ exc' = "AssertionError"
            /\ pc' = "raised"
            /\ UNCHANGED <<model, tsm>>
       ELSE LET pretrained == [weights |-> 0, training |-> FALSE]
                r == maybe_load_model(tsm, fs, pretrained)
            IN /\ exc' = r.exc
               /\ model' = r.model
               /\ tsm' = [tsm EXCEPT !.already_trained = r.already_trained,
                                     !.load_raised = r.load_raised,
                                     !.minibatch_size = MinibatchSize(tsm)]
               /\ pc' = IF r.exc # "none" THEN "raised"
                        ELSE IF r.already_trained THEN "tsm_eval"
                        ELSE "tsm_train"
    /\ UNCHANGED <<entry, args, fs>>
    /\ KeepLocals
    /\ KeepData

(* line 306: the loaded model is evaluated, not trained                    *)
TSM_Eval ==
    /\ pc = "tsm_eval"
    /\ tsm' = [tsm EXCEPT !.test_results = eval_model_acc(model, tsm.test_ds)]
    /\ pc' = "tsm_finish"
    /\ UNCHANGED <<exc, entry, args, model, fs>>
    /\ KeepLocals
    /\ KeepData

(* lines 308-326: the call of train_model.  log_every keeps its default;   *)
(* train_with_dropout and lr_schedule are left at the defaults of          *)
(* train_and_save_model, the other parameters are passed through.          *)
DefaultLogEvery == 10
TrainSetLens == {0, 2}

TSM_Train ==
    /\ pc = "tsm_train"
    /\ \E n \in TrainSetLens, ep \in 1..MaxEpochs, dr \in {FALSE},
          sch \in {"constant"}, opt \in {"adam", "sgd"},
          csv \in CsvPaths :
         args' = [n |-> n, batch_size |-> tsm.batch_size,
                  minibatch_size |-> tsm.minibatch_size,
                  log_every |-> DefaultLogEvery,
                  eval_ds |-> tsm.inference_ds, test_ds |-> tsm.test_ds,
                  train_with_dropout |-> dr, epochs |-> ep,
                  lr_schedule |-> sch, optimizer_name |-> opt,
                  csv_path |-> csv]
    /\ tsm' = [tsm EXCEPT !.train_calls = @ + 1]
    /\ pc' = "tm_setup"
    /\ UNCHANGED <<exc, entry, model, fs>>
    /\ KeepLocals
    /\ KeepData

(* lines 309, 327-333: train_model has returned; the weights are saved     *)
TSM_Save ==
    /\ pc = "tm_done"
    /\ entry = "train_and_save_model"
    /\ tsm' = [tsm EXCEPT !.test_results = ret]
    /\ fs' = IF tsm.save_path # NoPath THEN save_pretrained(fs, model) ELSE fs
    /\ pc' = "tsm_finish"
    /\ UNCHANGED <<exc, entry, args, model>>
    /\ KeepLocals
    /\ KeepData

(* lines 335-358: the inference set, the result summary, the return.       *)
(* `if inference_ds` is false for None and for an empty dataset.           *)
TSM_Finish ==
    /\ pc = "tsm_finish"
    /\ LET inf == IF tsm.inference_ds # None /\ tsm.inference_ds # 0
                  THEN eval_model_acc(model, tsm.inference_ds)
                  ELSE NoResults
       IN /\ tsm' = [tsm EXCEPT !.inference_results = inf]
          /\ fs' = IF tsm.save_path # NoPath
                   THEN [fs EXCEPT !.pkl =
                            [exists |-> TRUE,
                             test_results |-> tsm.test_results,
                             inference_results |-> inf]]
                   ELSE fs
    /\ pc' = "tsm_done"
    /\ UNCHANGED <<exc, entry, args, model>>
    /\ KeepLocals
    /\ KeepData

-----------------------------------------------------------------------------
(* load_dataset                                                            *)

MaxSeed == 1
MaxDocs == 3

(* _REGISTRY: three of the registered datasets, one for each way a         *)
(* formatter uses its rng (never, once, once or twice per item)            *)
Registry == {"boolq", "anthropic_hh", "sciq"}
DsNames == Registry \cup {"unregistered"}
Splits == {"train", "test"}

(* cfg.loader(split): the unshuffled items of the split, three for train   *)
(* and two for test, each with its ground-truth field                      *)
Loader(split) ==
    IF split = "train"
    THEN <<[id |-> 1, label |-> 1], [id |-> 2, label |-> 0],
           [id |-> 3, label |-> 1]>>
    ELSE <<[id |-> 11, label |-> 0], [id |-> 12, label |-> 1]>>

(* random.Random: the generator is a state in 0..15, Random(seed) is the   *)
(* state the seed gives and every draw moves it along a full-period        *)
(* linear congruential sequence.                                           *)
Random(seed) == seed % 16
RngNext(s) == (5 * s + 3) % 16
(* rng.random() < 0.5 on the state a draw has produced                     *)
BelowHalf(s) == s < 8
(* rng.choice of three on the state a draw has produced                    *)
Choice3(s) == (s % 3) + 1

(* the formatters: [txt, hard_label] and the state the rng is left in      *)
format_boolq(ex, s) ==
    [txt |-> [of |-> ex.id, part |-> "passage"], hard_label |-> ex.label,
     rng |-> s]

format_anthropic_hh(ex, s) ==
    LET s1 == RngNext(s)
        hard == IF BelowHalf(s1) THEN 1 ELSE 0
    IN [txt |-> [of |-> ex.id,
                 part |-> IF hard = 1 THEN "chosen" ELSE "rejected"],
        hard_label |-> hard, rng |-> s1]

format_sciq(ex, s) ==
    LET s1 == RngNext(s)
        hard == IF BelowHalf(s1) THEN 1 ELSE 0
        s2 == RngNext(s1)
    IN IF hard = 1
       THEN [txt |-> [of |-> ex.id, part |-> "correct_answer"],
             hard_label |-> 1, rng |-> s1]
       ELSE [txt |-> [of |-> ex.id,
                      part |-> CASE Choice3(s2) = 1 -> "distractor1"
                                 [] Choice3(s2) = 2 -> "distractor2"
                                 [] OTHER -> "distractor3"],
             hard_label |-> 0, rng |-> s2]

Formatter(name, ex, s) ==
    CASE name = "boolq" -> format_boolq(ex, s)
      [] name = "anthropic_hh" -> format_anthropic_hh(ex, s)
      [] OTHER -> format_sciq(ex, s)

(* ds.map(partial(cfg.formatter, rng=...)): the items in order, all        *)
(* drawing from the one generator the partial holds                        *)
RECURSIVE MapFormatter(_, _, _)
MapFormatter(name, items, s) ==
    IF items = <<>> THEN <<>>
    ELSE LET r == Formatter(name, Head(items), s)
         IN <<[id |-> Head(items).id, txt |-> r.txt,
               hard_label |-> r.hard_label]>>
            \o MapFormatter(name, Tail(items), r.rng)

(* the state that generator is left in                                     *)
RECURSIVE RngAfter(_, _, _)
RngAfter(name, items, s) ==
    IF items = <<>> THEN s
    ELSE RngAfter(name, Tail(items), Formatter(name, Head(items), s).rng)

(* the second ds.map: soft_label = [1 - hard_label, hard_label]            *)
WithSoftLabel(items) ==
    [k \in 1..Len(items) |->
        [id |-> items[k].id, txt |-> items[k].txt,
         hard_label |-> items[k].hard_label,
         soft_label |-> <<1 - items[k].hard_label, items[k].hard_label>>]]

(* ds.shuffle(seed=seed): a permutation fixed by the seed and the length   *)
Shuffle(items, seed) ==
    LET n == Len(items)
    IN [k \in 1..n |-> items[((k - 1 + seed + 1) % n) + 1]]

(* ds.select(range(n_docs)) inside the try: range(None) raises TypeError,  *)
(* which the except clause does not catch; an index past the end raises    *)
(* IndexError, which it catches, leaving ds whole                          *)
Select(items, n_docs) ==
    IF n_docs = None THEN [exc |-> "TypeError", items |-> items]
    ELSE IF n_docs > Len(items) THEN [exc |-> "none", items |-> items]
    ELSE [exc |-> "none", items |-> SubSeq(items, 1, n_docs)]

(* rng=Random(seed), built anew for every split; `carried` is the state    *)
(* the generator of the split before was left in                           *)
SplitRngShared(seed, carried) == carried
SplitRng(seed, carried) == Random(seed)

(* split_sizes as the dict the caller passes, in insertion order; the      *)
(* caller may also omit it                                                 *)
Sizes == {None} \cup 0..MaxDocs
SplitSizeDicts ==
    {<<<<sp, n>>>> : sp \in Splits, n \in Sizes} \cup
    {<<<<o[1], n>>, <<o[2], m>>>> :
        o \in {<<"train", "test">>, <<"test", "train">>},
        n \in Sizes, m \in Sizes}
DefaultSplitSizes == <<<<"train", None>>, <<"test", None>>>>

NoLd == [ds_name |-> "boolq", seed |-> 0, split_sizes |-> <<>>,
         omitted |-> FALSE, k |-> 1, results |-> <<>>, rng |-> 0]
NoRef == [set |-> FALSE, ds_name |-> "boolq", seed |-> 0, split |-> "train",
          n_docs |-> 0, pos |-> 0, items |-> <<>>]

(* A caller invokes load_dataset; lines 27-33.                             *)
LD_Call ==
    /\ pc = "idle"
    /\ \E name \in DsNames, seed \in 0..MaxSeed, omitted \in BOOLEAN,
          given \in SplitSizeDicts :
         /\ omitted => given = DefaultSplitSizes
         /\ ld' = [NoLd EXCEPT !.ds_name = name, !.seed = seed,
                               !.omitted = omitted,
                               !.split_sizes = IF omitted
                                               THEN DefaultSplitSizes
                                               ELSE given,
                               !.rng = Random(seed)]
         /\ exc' = IF name \in Registry THEN "none" ELSE "ValueError"
         /\ pc' = IF name \in Registry THEN "ld_loop" ELSE "raised"
    /\ entry' = "load_dataset"
    /\ UNCHANGED <<args, model, fs, tsm, ref>>
    /\ KeepLocals

(* lines 34-45: one pass of the loop over split_sizes.items()              *)
LD_Split ==
    /\ pc = "ld_loop"
    /\ IF ld.k > Len(ld.split_sizes)
       THEN /\ pc' = "ld_done"
            /\ UNCHANGED <<ld, exc>>
       ELSE LET split == ld.split_sizes[ld.k][1]
                n_docs == ld.split_sizes[ld.k][2]
                sel == Select(Loader(split), n_docs)
                s == SplitRng(ld.seed, ld.rng)
                ds == Shuffle(WithSoftLabel(
                          MapFormatter(ld.ds_name, sel.items, s)), ld.seed)
            IN IF sel.exc # "none"
               THEN /\ exc' = sel.exc
                    /\ pc' = "raised"
                    /\ UNCHANGED ld
               ELSE /\ ld' = [ld EXCEPT
                                !.results = Append(@, [split |-> split,
                                                       n_docs |-> n_docs,
                                                       items |-> ds]),
                                !.rng = RngAfter(ld.ds_name, sel.items, s),
                                !.k = @ + 1]
                    /\ pc' = "ld_loop"
                    /\ UNCHANGED exc
    /\ UNCHANGED <<entry, args, model, fs, tsm, ref>>
    /\ KeepLocals

(* what a caller may keep of a call that returned: one of its splits       *)
Kept ==
    IF entry = "load_dataset" /\ pc = "ld_done"
    THEN {[set |-> TRUE, ds_name |-> ld.ds_name, seed |-> ld.seed,
           split |-> ld.results[j].split, n_docs |-> ld.results[j].n_docs,
           pos |-> j, items |-> ld.results[j].items] :
             j \in 1..Len(ld.results)}
    ELSE {}

-----------------------------------------------------------------------------
(* The call is over: the caller has its result or its exception; the       *)
(* files stay.                                                             *)
DonePc ==
    CASE entry = "train_model" -> "tm_done"
      [] entry = "train_and_save_model" -> "tsm_done"
      [] OTHER -> "ld_done"

Return ==
    /\ pc \in {"raised", DonePc}
    /\ pc' = "idle"
    /\ exc' = "none"
    /\ entry' = "none"
    /\ args' = NoArgs
    /\ model' = NoModel
    /\ tsm' = NoTsm
    /\ ld' = NoLd
    /\ ref' \in {ref} \cup Kept
    /\ ResetLocals
    /\ UNCHANGED fs

NoFs == [csv |-> NoFile, marker |-> FALSE, safetensors |-> None,
         bin |-> None, pkl |-> NoPkl]

Idle ==
    /\ pc = "idle"
    /\ exc = "none"
    /\ entry = "none"
    /\ args = NoArgs
    /\ model = NoModel
    /\ tsm = NoTsm
    /\ ld = NoLd
    /\ ref = NoRef
    /\ Locals0

(* train_model, called again and again with one csv_path                   *)
Init ==
    /\ Idle
    /\ fs = NoFs

Next ==
    \/ TM_Call
    \/ TM_Setup
    \/ TM_Loop
    \/ TM_Minibatch
    \/ TM_Loss
    \/ TM_Log
    \/ TM_Final
    \/ Return

Spec == Init /\ [][Next]_vars

(* train_and_save_model, called again and again on one save_path whose     *)
(* directory may hold a marker and a weights file when the session starts  *)
InitSave ==
    /\ Idle
    /\ \E mk \in BOOLEAN, st \in {None, Corrupt, ForeignWeights} :
         fs = [NoFs EXCEPT !.marker = mk, !.safetensors = st]

NextSave ==
    \/ TSM_Call
    \/ TSM_Load
    \/ TSM_Eval
    \/ TSM_Train
    \/ TM_Setup
    \/ TM_Loop
    \/ TM_Minibatch
    \/ TM_Loss
    \/ TM_Log
    \/ TM_Final
    \/ TSM_Save
    \/ TSM_Finish
    \/ Return

SpecSave == InitSave /\ [][NextSave]_vars

(* load_dataset, called again and again                                    *)
InitData ==
    /\ Idle
    /\ fs = NoFs

NextData ==
    \/ LD_Call
    \/ LD_Split
    \/ Return

SpecData == InitData /\ [][NextData]_vars

-----------------------------------------------------------------------------
(* Properties of train_model, checked under Spec.                          *)

InBody == pc \in {"tm_mbatch", "tm_loss", "tm_log"}
AfterLoop == pc \in {"tm_final", "tm_done"}
InTrainModel == pc = "tm_loop" \/ InBody \/ AfterLoop

(* C2: for every dataset length, epochs and batch_size (minibatch_size     *)
(* dividing it) the while loop of train_model runs exactly                 *)
(* nsteps = floor(len(ds) * epochs / batch_size) iterations and then       *)
(* ends: iteration k runs with step = k - 1, step grows by one per         *)
(* iteration, the loop is left with step = nsteps, no iteration raises,    *)
(* and a call inside the loop can always take its next step.               *)
C2_LoopRunsNstepsIterations ==
    /\ InTrainModel =>
         /\ nsteps * args.batch_size <= args.n * args.epochs
         /\ args.n * args.epochs < (nsteps + 1) * args.batch_size
         /\ args.batch_size % args.minibatch_size = 0
         /\ step <= nsteps
         /\ iters <= nsteps
    /\ pc = "tm_loop" => iters = step
    /\ InBody => iters = step + 1 /\ step < nsteps
    /\ AfterLoop => iters = nsteps /\ step = nsteps
    /\ (pc = "raised" /\ entry = "train_model") => iters = 0
    /\ (pc = "tm_loop" \/ InBody) =>
         ENABLED (TM_Loop \/ TM_Minibatch \/ TM_Loss \/ TM_Log)

(* a run of one whole iteration on 3 items with batch_size 2: the last     *)
(* item is left over                                                       *)
C2_Witness ==
    /\ pc = "tm_done" /\ entry = "train_model"
    /\ args.n * args.epochs = 3 /\ args.batch_size = 2
    /\ nsteps = 1 /\ iters = 1

(* C8: every iteration k draws batch_size / minibatch_size minibatches of  *)
(* minibatch_size examples with no optimizer step between them, so the     *)
(* loss of step k is over the batch_size examples at positions             *)
(* k*batch_size .. (k+1)*batch_size - 1 of the repeated dataset; the       *)
(* iterator is never exhausted inside a step.                              *)
C8_StepUsesExactlyOneBatch ==
    LET bs == args.batch_size
        mb == args.minibatch_size
    IN /\ pc = "tm_mbatch" =>
            /\ i < bs \div mb
            /\ it = step * bs + i * mb
            /\ it + mb <= args.n * args.epochs
            /\ all_logits = Range(step * bs, it)
            /\ fwd = step * (bs \div mb) + i
            /\ opts = step
       /\ pc = "tm_loss" =>
            /\ i = bs \div mb
            /\ Len(all_logits) = bs
            /\ all_logits = Range(step * bs, (step + 1) * bs)
            /\ it = (step + 1) * bs
            /\ fwd = (step + 1) * (bs \div mb)
            /\ opts = step
       /\ pc = "tm_log" => opts = step + 1
       /\ exc # "RuntimeError"

(* the second step of a run with two minibatches per batch                 *)
C8_Witness ==
    /\ pc = "tm_loss" /\ entry = "train_model"
    /\ step = 1 /\ args.batch_size = 2 /\ args.minibatch_size = 1
    /\ all_logits = <<2, 3>>

(* the steps s < upto with s % every = 0 are 0, every, 2*every, ...        *)
NumLogSteps(upto, every) ==
    IF every = 0 \/ upto = 0 THEN 0 ELSE (upto - 1) \div every + 1

(* C9: with log_every > 0 the logging happens exactly at the steps with    *)
(* step % log_every = 0; the buffers then hold one entry for each step     *)
(* since the previous logging (one at step 0, log_every later) and are     *)
(* empty afterwards.  With log_every = 0 nothing is logged and the         *)
(* buffers keep every entry.                                               *)
C9_LoggingIntervals ==
    LET le == args.log_every
        done == IF pc = "tm_log" THEN step + 1 ELSE step
        sinceLog == IF le = 0 THEN done
                    ELSE IF done = 0 THEN 0
                    ELSE (done - 1) % le
    IN InTrainModel =>
         /\ Len(logged) = NumLogSteps(step, le)
         /\ \A k \in 1..Len(logged) :
              /\ logged[k].step = (k - 1) * le
              /\ logged[k].losses =
                   IF k = 1 THEN <<0>>
                   ELSE Range((k - 2) * le + 1, (k - 1) * le + 1)
              /\ logged[k].accuracies = logged[k].losses
         /\ accuracies = losses
         /\ pc \in {"tm_loop", "tm_mbatch", "tm_loss"} =>
              /\ Len(losses) = sinceLog
              /\ losses = Range(step - sinceLog, step)
         /\ pc = "tm_log" =>
              losses = Range(step - (IF le = 0 THEN step
                                     ELSE IF step = 0 THEN 0
                                     ELSE (step - 1) % le), step + 1)
         /\ (le = 0 /\ AfterLoop) => (logged = <<>> /\ Len(losses) = nsteps)

(* three steps with log_every = 2: logged at step 0 (one entry) and at     *)
(* step 2 (two entries)                                                    *)
C9_Witness ==
    /\ pc = "tm_done" /\ entry = "train_model"
    /\ args.log_every = 2
    /\ Len(logged) = 2
    /\ logged[2].step = 2 /\ logged[2].losses = <<1, 2>>
    /\ losses = <<>>

(* C10: with train_with_dropout the model is in training mode at the       *)
(* forward pass of every training step, also after a periodic loss         *)
(* computation; without it the model is in evaluation mode.                *)
C10_ModeAtForwardPass ==
    pc = "tm_mbatch" => model.training = args.train_with_dropout

(* C4: once a call of train_model with a csv_path is over, the metrics     *)
(* file holds the header row and one row per logging interval.             *)
C4_CsvHoldsHeaderAndRows ==
    ( /\ entry = "train_model"
      /\ pc \in {"tm_done", "raised"}
      /\ args.csv_path # NoPath
      /\ args.batch_size % args.minibatch_size = 0
      /\ Lower(args.optimizer_name) \in {"adam", "adafactor"}
      /\ args.lr_schedule \in {"constant", "cosine_anneal"} )
    => /\ fs.csv.exists
       /\ Len(fs.csv.rows) = 1 + NumLogSteps(nsteps, args.log_every)
       /\ fs.csv.rows[1] = CsvHeader

(* C6: a call of train_model with an unknown optimizer_name or             *)
(* lr_schedule ends with an AssertionError before any forward pass or      *)
(* optimizer step.                                                         *)
C6_InvalidNamesFailByAssertion ==
    ( /\ entry = "train_model"
      /\ pc # "tm_setup"
      /\ \/ Lower(args.optimizer_name) \notin {"adam", "adafactor"}
         \/ args.lr_schedule \notin {"constant", "cosine_anneal"} )
    => /\ pc = "raised"
       /\ exc = "AssertionError"
       /\ fwd = 0 /\ opts = 0

(* what holds of such a call whatever csv_path is: it ends with an         *)
(* exception and has run no forward pass and no optimizer step             *)
C6_InvalidNamesRunNoStep ==
    ( /\ entry = "train_model"
      /\ pc # "tm_setup"
      /\ \/ Lower(args.optimizer_name) \notin {"adam", "adafactor"}
         \/ args.lr_schedule \notin {"constant", "cosine_anneal"} )
    => /\ pc = "raised"
       /\ exc \in {"AssertionError", "NameError"}
       /\ exc = "NameError" => args.csv_path # NoPath
       /\ fwd = 0 /\ opts = 0

-----------------------------------------------------------------------------
(* Properties of train_and_save_model, checked under SpecSave.             *)

DevicesOk == ~(tsm.model_parallel /\ tsm.device_count <= 1)

(* C1: a call with the save_path of an earlier call that trained and       *)
(* saved, and with force_retrain false, finds the earlier run, loads the   *)
(* weights that call saved and does not train; its test results are those *)
(* of the saved weights.                                                   *)
C1_SecondCallLoadsSavedWeights ==
    ( /\ entry = "train_and_save_model"
      /\ tsm.saved_before # None /\ tsm.saved_before >= 1
      /\ tsm.save_path # NoPath
      /\ ~tsm.force_retrain
      /\ DevicesOk
      /\ pc # "tsm_load" )
    => /\ tsm.already_trained
       /\ tsm.train_calls = 0
       /\ model.weights = tsm.saved_before
       /\ pc = "tsm_done" =>
            tsm.test_results =
              eval_model_acc([weights |-> tsm.saved_before,
                              training |-> FALSE], tsm.test_ds)

(* the case of C3: the marker is there, retraining is not forced, and the  *)
(* weights file is missing or unreadable, so loading raises                *)
LoadFails ==
    /\ entry = "train_and_save_model"
    /\ fs.marker
    /\ ~tsm.force_retrain
    /\ tsm.save_path # NoPath
    /\ fs.safetensors \in {None, Corrupt}
    /\ DevicesOk
    /\ pc # "tsm_load"

(* C3: when the marker exists, force_retrain is false and loading the      *)
(* checkpoint raises, the exception does not leave train_and_save_model:   *)
(* the model counts as not trained, train_model is called exactly once,    *)
(* and when it returns the trained weights and the result summary of this  *)
(* run are saved.  Only an exception of train_model itself ends the call   *)
(* early.                                                                  *)
C3_LoadFailureFallsThroughToTraining ==
    LoadFails =>
      /\ ~tsm.already_trained
      /\ tsm.load_raised
      /\ exc \notin {"ValueError", "UnpicklingError", "TypeError"}
      /\ pc \notin {"tsm_eval", "idle"}
      /\ tsm.train_calls = IF pc = "tsm_train" THEN 0 ELSE 1
      /\ pc = "raised" => exc = SetupFailure(args)
      /\ pc \in {"tsm_finish", "tsm_done"} =>
           /\ opts = nsteps
           /\ model.weights = nsteps
           /\ fs.bin = model.weights
           /\ tsm.test_results = eval_model_acc(model, tsm.test_ds)
      /\ pc = "tsm_done" =>
           /\ fs.pkl.exists
           /\ fs.pkl.test_results = eval_model_acc(model, tsm.test_ds)
           /\ fs.pkl.inference_results = tsm.inference_results

(* an unreadable weights file beside the marker: the call has trained for  *)
(* two steps and saved the weights and the summary                         *)
C3_Witness ==
    /\ LoadFails
    /\ fs.safetensors = Corrupt
    /\ pc = "tsm_done"
    /\ tsm.train_calls = 1
    /\ model.weights = 2
    /\ fs.bin = 2
    /\ fs.pkl.test_results.weights = 2

(* the case of C11: save_path is left at its default, None, and the call   *)
(* is past the loading of the model                                        *)
NoSavePath ==
    /\ entry = "train_and_save_model"
    /\ tsm.save_path = NoPath
    /\ DevicesOk
    /\ pc # "tsm_load"

(* C11: train_and_save_model called without a save_path does not raise on  *)
(* account of the missing path: it loads nothing, calls train_model once   *)
(* (only an exception of train_model itself ends the call early), returns  *)
(* the test results of the trained model and the inference results, and    *)
(* leaves the saved weights and the result summary as they were.           *)
C11_NoSavePathTrainsAndReturns ==
    NoSavePath =>
      /\ ~tsm.already_trained
      /\ ~tsm.load_raised
      /\ exc # "TypeError"
      /\ pc \notin {"tsm_eval", "idle"}
      /\ tsm.train_calls = IF pc = "tsm_train" THEN 0 ELSE 1
      /\ pc = "raised" => exc = SetupFailure(args)
      /\ pc \in {"tsm_finish", "tsm_done"} =>
           /\ opts = nsteps
           /\ model.weights = nsteps
           /\ tsm.test_results = eval_model_acc(model, tsm.test_ds)
      /\ pc = "tsm_done" =>
           tsm.inference_results =
             IF tsm.inference_ds # None /\ tsm.inference_ds # 0
             THEN eval_model_acc(model, tsm.inference_ds) ELSE NoResults
      /\ tsm.saved_before = IF fs.pkl.exists THEN fs.bin ELSE None

(* what holds of such a call: os.path.join(None, "results.txt") raises     *)
(* TypeError in maybe_load_model, before the marker is looked for; no      *)
(* model is trained, nothing is returned and no file is written            *)
C11_NoSavePathRaisesTypeError ==
    NoSavePath =>
      /\ pc = "raised"
      /\ exc = "TypeError"
      /\ tsm.train_calls = 0
      /\ ~tsm.already_trained
      /\ model.weights = 0
      /\ tsm.test_results = NoResults
      /\ tsm.inference_results = NoResults
      /\ tsm.saved_before = IF fs.pkl.exists THEN fs.bin ELSE None

-----------------------------------------------------------------------------
(* Properties of load_dataset, checked under SpecData.                    *)

(* the number of items C5 expects of a split                               *)
ExpectedLen(split, n_docs) ==
    LET avail == Len(Loader(split))
    IN IF n_docs = None THEN avail
       ELSE IF avail >= n_docs THEN n_docs ELSE avail

(* C5: load_dataset of a registered dataset does not fail, and returns     *)
(* for every requested split n_docs items when the split has that many,    *)
(* all its items when it has fewer, and all its items when n_docs is None  *)
(* (as for train and test when split_sizes is omitted).                    *)
C5_SplitSizesHonoured ==
    (entry = "load_dataset" /\ ld.ds_name \in Registry) =>
      /\ pc # "raised"
      /\ \A j \in 1..Len(ld.results) :
           Len(ld.results[j].items) =
             ExpectedLen(ld.results[j].split, ld.results[j].n_docs)
      /\ pc = "ld_done" => Len(ld.results) = Len(ld.split_sizes)

(* what holds of the sizes: a call fails only on a split whose n_docs is   *)
(* None, with TypeError, and the splits before it have the sizes above     *)
C5_OnlyNoneFails ==
    (entry = "load_dataset" /\ ld.ds_name \in Registry) =>
      /\ pc = "raised" =>
           /\ exc = "TypeError"
           /\ ld.split_sizes[ld.k][2] = None
      /\ \A j \in 1..Len(ld.results) :
           /\ ld.results[j].n_docs # None
           /\ Len(ld.results[j].items) =
                ExpectedLen(ld.results[j].split, ld.results[j].n_docs)
      /\ pc = "ld_done" => Len(ld.results) = Len(ld.split_sizes)

(* C7: what load_dataset returns for a split is fixed by the dataset       *)
(* name, the seed, the split and its n_docs: a split returned by any       *)
(* earlier call with these four equal has the same items in the same       *)
(* order with the same hard and soft labels, whichever other splits        *)
(* either call asked for and in whichever order.                           *)
C7_SplitResultIsDeterministic ==
    \A j \in 1..Len(ld.results) :
        ( /\ ref.set
          /\ ref.ds_name = ld.ds_name
          /\ ref.seed = ld.seed
          /\ ref.split = ld.results[j].split
          /\ ref.n_docs = ld.results[j].n_docs )
        => ld.results[j].items = ref.items

(* the train split of sciq, first returned by a call that loaded it first  *)
(* and now by a call that loads it after test; the formatter has drawn     *)
(* both labels                                                             *)
C7_Witness ==
    /\ pc = "ld_done"
    /\ ld.ds_name = "sciq"
    /\ Len(ld.results) = 2
    /\ ld.results[2].split = "train"
    /\ ref.set /\ ref.pos = 1
    /\ ref.ds_name = ld.ds_name /\ ref.seed = ld.seed
    /\ ref.split = "train" /\ ref.n_docs = ld.results[2].n_docs
    /\ \E a, b \in 1..Len(ref.items) :
         ref.items[a].hard_label = 1 /\ ref.items[b].hard_label = 0

====
